---- MODULE Spec2Model ----
(***************************************************************************)
(* The bird counting pipeline as state machines that share one set of      *)
(* variables, each specification leaving the variables of the others at    *)
(* rest:                                                                   *)
(*   Spec           one ByteTracker (src/tracker.py), one action per call  *)
(*                  of update                                              *)
(*   IouSpec        calculate_iou (src/utils.py) on pairs of boxes         *)
(*   EstimatorSpec  WeightEstimator.estimate_weights                       *)
(*                  (src/weight_estimator.py) on track histories           *)
(*   VideoSpec      the frame loop of VideoProcessor.process_video         *)
(*                  (src/video_processor.py)                               *)
(*   PairSpec       two ByteTracker objects called in any interleaving     *)
(*   ApiSpec        one request to analyze_video (src/main.py)             *)
(*                                                                         *)
(* Numbers.  Box coordinates are integers.  An IoU is the exact rational   *)
(* <<intersection, union>> (<<0, 1>> where calculate_iou returns 0), and   *)
(* two IoUs are compared by cross multiplication.  match_thresh is a       *)
(* rational <<num, den>>.  Confidences and track_thresh are hundredths.    *)
(*                                                                         *)
(* The tracks dict is a sequence of track records in insertion order,      *)
(* which is the order Python iterates a dict in.                           *)
(***************************************************************************)
EXTENDS Integers, Sequences, FiniteSets, TLC

VARIABLES
    track_thresh,   \* self.track_thresh, hundredths
    track_buffer,   \* self.track_buffer
    match_thresh,   \* self.match_thresh, <<num, den>>
    tracks,         \* self.tracks, in insertion order
    next_id,        \* self.next_id
    frame_count,    \* self.frame_count
    detections,     \* argument of the last update call
    results,        \* what the last update call returned (<<>> if it raised)
    raised,         \* TRUE iff the last update call raised ValueError
    pass1,          \* what _match computed in pass 1 of the last call
    pass2,          \* what _match computed in pass 2 of the last call
    ran2,           \* TRUE iff the last call ran pass 2
    prev_tracks,    \* self.tracks as the last update call found it
    prev_next_id,   \* self.next_id as the last update call found it
    prev_frame_count, \* self.frame_count as the last update call found it
    evicted,        \* the ids that were keys of self.tracks and were deleted
    prev_miss,      \* miss as the last update call found it
    miss,           \* id of a live track -> number of consecutive update
                    \* calls, up to now, in which _match gave it no detection
    chain,          \* TRUE iff every frame so far carried exactly one
                    \* detection, of high confidence, whose IoU with the
                    \* previous frame's detection was >= match_thresh
    fed,            \* number of detections passed to update so far
    update_calls,   \* number of calls of update made so far
    iou_args,       \* <<box1, box2>>, the boxes calculate_iou is applied to
    iou_value,      \* <<>> before the calls, then
                    \* <<calculate_iou(box1, box2), calculate_iou(box2, box1)>>
    track_histories, \* the tracks argument of estimate_weights: the entries
                    \* of the dict in insertion order
    estimates,      \* what the last two calls of estimate_weights returned
    area_to_weight_factor, \* self.area_to_weight_factor of the estimator
    density_factor, \* self.density_factor of the estimator
    conf_thresh,    \* self.conf_thresh of the VideoProcessor, hundredths
    fps_sample,     \* argument of process_video
    fps,            \* frame rate of the video, frames per second
    frame_idx,      \* frame_idx of process_video
    counts,         \* counts of process_video
    all_tracks,     \* all_tracks of process_video: the entries of the dict in
                    \* insertion order
    processed_frames, \* processed_frames of process_video
    pv_status,      \* "off": process_video is not running; "running": it is
                    \* at the head of its while loop; "returned"; or the name
                    \* of the exception that ended it
    instances,      \* two ByteTracker objects: name -> attributes
    calls,          \* name -> the detection lists update was called with
    returns,        \* name -> what each of these calls returned
    request,        \* the form fields of a POST /analyze_video
    api_pc,         \* where analyze_video is: "off" (no request), "validate",
                    \* "process", "except" or "done"
    exception,      \* the exception raised inside the try block, <<>> if none
    response,       \* the response of analyze_video, <<>> before it answers
    started         \* TRUE iff the video was saved and given to process_video

tracker_vars == <<track_thresh, track_buffer, match_thresh, tracks, next_id,
                  frame_count, detections, results, raised, pass1, pass2,
                  ran2, prev_tracks, prev_next_id, prev_frame_count, evicted,
                  prev_miss, miss, chain, fed, update_calls>>

iou_vars == <<iou_args, iou_value>>

estimator_vars == <<track_histories, estimates, area_to_weight_factor,
                    density_factor>>

video_vars == <<conf_thresh, fps_sample, fps, frame_idx, counts, all_tracks,
                processed_frames, pv_status>>

pair_vars == <<instances, calls, returns>>

api_vars == <<request, api_pc, exception, response, started>>

vars == <<tracker_vars, iou_vars, estimator_vars, video_vars, pair_vars,
          api_vars>>

----------------------------------------------------------------------------
(* Bounds of the model *)

MaxFrames == 3      \* update is called at most MaxFrames times
MaxDets == 2        \* a frame carries at most MaxDets detections
MaxFed == 4         \* the frames carry at most MaxFed detections in all
MaxCoord == 2       \* calculate_iou is applied to boxes with coordinates
                    \* in 0..MaxCoord
MaxObs == 2         \* a track history given to estimate_weights holds at
                    \* most MaxObs observations

(* Boxes fed to the tracker: BoxA and BoxB overlap with IoU 90/110 (and    *)
(* differ by at most one pixel per coordinate), BoxC is disjoint from      *)
(* both, BoxZ is degenerate (zero area) and lies inside BoxA and BoxB.     *)
BoxA == <<0, 0, 10, 10>>
BoxB == <<1, 0, 11, 10>>
BoxC == <<20, 20, 30, 30>>
BoxZ == <<5, 5, 5, 5>>

(* Configurations: confidences in hundredths, 50 is the cutoff itself.     *)
TrackThreshs == {50}
MatchThreshs == {<<0, 1>>, <<7, 10>>}
TrackBuffers == {0, 1}

(* Detections [x1, y1, x2, y2, confidence] *)
Dets == {BoxA \o <<50>>, BoxB \o <<50>>, BoxB \o <<40>>,
         BoxC \o <<50>>, BoxZ \o <<50>>}

RECURSIVE SeqsUpTo(_, _)
SeqsUpTo(S, n) ==
    IF n = 0 THEN {<<>>}
    ELSE LET shorter == SeqsUpTo(S, n - 1)
         IN  shorter \cup {Append(s, x) : s \in {t \in shorter : Len(t) = n - 1}, x \in S}

DetLists == SeqsUpTo(Dets, MaxDets)

----------------------------------------------------------------------------
(* Sequence helpers for Python list operations *)

Range(s) == {s[i] : i \in DOMAIN s}

RECURSIVE SelectSeqIdx(_, _)
\* the indices 1..Len(s) as a sequence: list(range(len(s))), 1-based
SelectSeqIdx(s, k) ==
    IF k > Len(s) THEN <<>> ELSE <<k>> \o SelectSeqIdx(s, k + 1)

\* list.remove(x) for a list that holds x: drops its first occurrence
ListRemove(s, x) ==
    LET i == CHOOSE j \in DOMAIN s : s[j] = x /\ \A k \in 1..(j - 1) : s[k] # x
    IN  SubSeq(s, 1, i - 1) \o SubSeq(s, i + 1, Len(s))

----------------------------------------------------------------------------
(* src/utils.py *)

Max2(a, b) == IF a >= b THEN a ELSE b
Min2(a, b) == IF a <= b THEN a ELSE b

\* calculate_iou without the clamp of the overlap extents at 0
calculate_iou_NoClamp(box1, box2) ==
    LET x1 == Max2(box1[1], box2[1])
        y1 == Max2(box1[2], box2[2])
        x2 == Min2(box1[3], box2[3])
        y2 == Min2(box1[4], box2[4])
        intersection == (x2 - x1) * (y2 - y1)
        area1 == (box1[3] - box1[1]) * (box1[4] - box1[2])
        area2 == (box2[3] - box2[1]) * (box2[4] - box2[2])
        union == area1 + area2 - intersection
    IN  IF union > 0 THEN <<intersection, union>> ELSE <<0, 1>>

\* calculate_iou without the test union > 0 before the division
calculate_iou_Unguarded(box1, box2) ==
    LET x1 == Max2(box1[1], box2[1])
        y1 == Max2(box1[2], box2[2])
        x2 == Min2(box1[3], box2[3])
        y2 == Min2(box1[4], box2[4])
        intersection == Max2(0, x2 - x1) * Max2(0, y2 - y1)
        area1 == (box1[3] - box1[1]) * (box1[4] - box1[2])
        area2 == (box2[3] - box2[1]) * (box2[4] - box2[2])
        union == area1 + area2 - intersection
    IN  <<intersection, union>>

\* calculate_iou: <<intersection, union>>, or <<0, 1>> where it returns 0
calculate_iou(box1, box2) ==
    LET x1 == Max2(box1[1], box2[1])
        y1 == Max2(box1[2], box2[2])
        x2 == Min2(box1[3], box2[3])
        y2 == Min2(box1[4], box2[4])
        intersection == Max2(0, x2 - x1) * Max2(0, y2 - y1)
        area1 == (box1[3] - box1[1]) * (box1[4] - box1[2])
        area2 == (box2[3] - box2[1]) * (box2[4] - box2[2])
        union == area1 + area2 - intersection
    IN  IF union > 0 THEN <<intersection, union>> ELSE <<0, 1>>

\* comparisons of two rationals with positive denominators
RatGt(a, b) == a[1] * b[2] > b[1] * a[2]
RatLt(a, b) == a[1] * b[2] < b[1] * a[2]
RatGe(a, b) == ~RatLt(a, b)

----------------------------------------------------------------------------
(* src/tracker.py: ByteTracker._match *)

\* list(tracks.keys())
track_ids(trks) == [j \in DOMAIN trks |-> trks[j].id]

\* tracks[track_id]
TrackOf(trks, tid) == trks[CHOOSE j \in DOMAIN trks : trks[j].id = tid]

\* iou_matrix[i, track_ids.index(tid)], filled in by lines 140-145
iou_matrix(dets, trks, i, tid) ==
    calculate_iou(SubSeq(dets[i], 1, 4), TrackOf(trks, tid).box)

\* the (i, tid) pairs in the order the two for loops of lines 158-159 visit them
ScanOrder(us_dets, us_tracks) ==
    [k \in 1..(Len(us_dets) * Len(us_tracks)) |->
        <<us_dets[((k - 1) \div Len(us_tracks)) + 1],
          us_tracks[((k - 1) % Len(us_tracks)) + 1]>>]

\* line 161: a pair replaces the running maximum only when strictly larger
Better(v, max_iou) == RatGt(v, max_iou)

RECURSIVE FindMax(_, _, _, _, _)
\* lines 154-164: max_iou, max_det, max_track after the scan
FindMax(dets, trks, pairs, k, best) ==
    IF k > Len(pairs) THEN best
    ELSE LET v == iou_matrix(dets, trks, pairs[k][1], pairs[k][2])
         IN  IF Better(v, best.max_iou)
             THEN FindMax(dets, trks, pairs, k + 1,
                          [max_iou |-> v, max_det |-> pairs[k][1],
                           max_track |-> pairs[k][2]])
             ELSE FindMax(dets, trks, pairs, k + 1, best)

NoMax == [max_iou |-> <<0, 1>>, max_det |-> -1, max_track |-> -1]

\* line 166: the pass stops when the maximum is below match_thresh
BelowThresh(max_iou, mt) == RatLt(max_iou, mt)

RECURSIVE MatchLoop(_, _, _, _, _, _)
\* the while loop of lines 152-171.  unmatched_dets.remove(-1) raises
\* ValueError when the scan found no pair with IoU > 0 and the loop did not
\* break.
MatchLoop(dets, trks, mt, matched, us_dets, us_tracks) ==
    IF Len(us_dets) > 0 /\ Len(us_tracks) > 0
    THEN LET best == FindMax(dets, trks, ScanOrder(us_dets, us_tracks), 1, NoMax)
         IN  IF BelowThresh(best.max_iou, mt)
             THEN [matched |-> matched, unmatched_dets |-> us_dets,
                   unmatched_tracks |-> us_tracks, raised |-> FALSE]
             ELSE IF best.max_det \notin Range(us_dets)
             THEN [matched |-> Append(matched, <<best.max_det, best.max_track>>),
                   unmatched_dets |-> us_dets,
                   unmatched_tracks |-> us_tracks, raised |-> TRUE]
             ELSE MatchLoop(dets, trks, mt,
                            Append(matched, <<best.max_det, best.max_track>>),
                            ListRemove(us_dets, best.max_det),
                            ListRemove(us_tracks, best.max_track))
    ELSE [matched |-> matched, unmatched_dets |-> us_dets,
          unmatched_tracks |-> us_tracks, raised |-> FALSE]

\* _match(detections, tracks): detection indices are 1-based here
match(dets, trks, mt) ==
    IF Len(dets) = 0 \/ Len(trks) = 0
    THEN [matched |-> <<>>, unmatched_dets |-> SelectSeqIdx(dets, 1),
          unmatched_tracks |-> track_ids(trks), raised |-> FALSE]
    ELSE MatchLoop(dets, trks, mt, <<>>, SelectSeqIdx(dets, 1), track_ids(trks))

----------------------------------------------------------------------------
(* src/tracker.py: ByteTracker.update *)

\* line 61
\* IsHigh with a strict comparison
IsHigh_Strict(d, tt) == d[5] > tt

IsHigh(d, tt) == d[5] >= tt

high_conf_dets(dets, tt) == SelectSeq(dets, LAMBDA d : IsHigh(d, tt))

\* line 62
low_conf_dets(dets, tt) == SelectSeq(dets, LAMBDA d : d[5] < tt)

\* lines 72-75 and 86-89: one matched pair applied to the dict
ApplyOne(trks, det, tid) ==
    [j \in DOMAIN trks |->
        IF trks[j].id = tid
        THEN [trks[j] EXCEPT !.box = SubSeq(det, 1, 4), !.confidence = det[5],
                             !.age = 0, !.hits = @ + 1]
        ELSE trks[j]]

RECURSIVE ApplyMatches(_, _, _, _)
\* the for loops of lines 70-75 and 84-89
ApplyMatches(trks, matched, dets, k) ==
    IF k > Len(matched) THEN trks
    ELSE ApplyMatches(ApplyOne(trks, dets[matched[k][1]], matched[k][2]),
                      matched, dets, k + 1)

\* line 78: the second pass runs only with low detections and unmatched tracks
SecondPassRuns(low, us_tracks) == Len(low) > 0 /\ Len(us_tracks) > 0

\* unmatched_track_dict, offering pass 2 every track of the dict
unmatched_track_dict_All(trks, us_tracks) == trks

\* line 79
unmatched_track_dict(trks, us_tracks) ==
    [k \in DOMAIN us_tracks |-> TrackOf(trks, us_tracks[k])]

\* NewTrack with the box padded by 2 pixels on every side
NewTrack_Padded(det, nid, fc) ==
    [id |-> nid, box |-> <<det[1] - 2, det[2] - 2, det[3] + 2, det[4] + 2>>,
     confidence |-> det[5], age |-> 0, hits |-> 1, start_frame |-> fc]

\* lines 96-102: the track a detection creates
NewTrack(det, nid, fc) ==
    [id |-> nid, box |-> SubSeq(det, 1, 4), confidence |-> det[5],
     age |-> 0, hits |-> 1, start_frame |-> fc]

\* line 94: the detections that create a track are those pass 1 left unmatched
Creators(m1) == m1.unmatched_dets

RECURSIVE CreateTracks_LenId(_, _, _, _, _, _)
\* CreateTracks, numbering a new track by the size of the dict
CreateTracks_LenId(trks, nid, fc, high, us_dets, k) ==
    IF k > Len(us_dets) THEN [tracks |-> trks, next_id |-> Len(trks) + 1]
    ELSE CreateTracks_LenId(Append(trks, NewTrack(high[us_dets[k]], Len(trks) + 1, fc)),
                            nid, fc, high, us_dets, k + 1)

RECURSIVE CreateTracks(_, _, _, _, _, _)
\* the for loop of lines 94-103; returns the dict and next_id
CreateTracks(trks, nid, fc, high, us_dets, k) ==
    IF k > Len(us_dets) THEN [tracks |-> trks, next_id |-> nid]
    ELSE CreateTracks(Append(trks, NewTrack(high[us_dets[k]], nid, fc)),
                      nid + 1, fc, high, us_dets, k + 1)

\* lines 53 and 106-107
AgeTracks(trks, ids) ==
    [j \in DOMAIN trks |->
        IF trks[j].id \in ids THEN [trks[j] EXCEPT !.age = @ + 1] ELSE trks[j]]

\* IsDead, deleting a track one frame early
IsDead_Early(t, buf) == t.age >= buf

\* IsDead, keeping a track one frame longer
IsDead_Late(t, buf) == t.age > buf + 1

\* lines 54 and 110-111
IsDead(t, buf) == t.age > buf

\* lines 56-57 and 112-113
RemoveDead(trks, buf) == SelectSeq(trks, LAMBDA t : ~IsDead(t, buf))

\* IsActive, also reporting tracks last updated one frame ago
IsActive_Stale(t) == t.age <= 1

\* line 118
IsActive(t) == t.age = 0

\* lines 116-120
ActiveResults(trks) ==
    LET act == SelectSeq(trks, IsActive)
    IN  [j \in DOMAIN act |-> act[j].box \o <<act[j].id>>]

NoPass == [matched |-> <<>>, unmatched_dets |-> <<>>,
           unmatched_tracks |-> <<>>, raised |-> FALSE]

\* update(detections) on a tracker in state (trks, nid, fc): the state it
\* leaves, what it returns, whether it raised, and (for the properties) what
\* the two passes returned.  When _match raises, update stops there and the
\* assignments made so far stay.
update(trks, nid, fc, dets, tt, buf, mt) ==
    LET high == high_conf_dets(dets, tt)
        low == low_conf_dets(dets, tt)
        m1 == match(high, trks, mt)
        after1 == ApplyMatches(trks, m1.matched, high, 1)
        runs2 == SecondPassRuns(low, m1.unmatched_tracks)
        m2 == IF runs2
              THEN match(low, unmatched_track_dict(after1, m1.unmatched_tracks), mt)
              ELSE NoPass
        after2 == ApplyMatches(after1, m2.matched, low, 1)
        us_tracks == IF runs2 THEN m2.unmatched_tracks ELSE m1.unmatched_tracks
        made == CreateTracks(after2, nid, fc + 1, high, Creators(m1), 1)
        aged == AgeTracks(made.tracks, Range(us_tracks))
        final == RemoveDead(aged, buf)
        base == [tracks |-> trks, next_id |-> nid, frame_count |-> fc + 1,
                 results |-> <<>>, raised |-> FALSE, high |-> high, low |-> low,
                 m1 |-> NoPass, runs2 |-> FALSE, m2 |-> NoPass]
    IN  IF Len(dets) = 0
        THEN [base EXCEPT !.tracks = RemoveDead(AgeTracks(trks, Range(track_ids(trks))), buf)]
        ELSE IF m1.raised
        THEN [base EXCEPT !.raised = TRUE, !.m1 = m1]
        ELSE IF m2.raised
        THEN [base EXCEPT !.tracks = after1, !.raised = TRUE, !.m1 = m1,
                          !.runs2 = runs2, !.m2 = m2]
        ELSE [base EXCEPT !.tracks = final, !.next_id = made.next_id,
                          !.results = ActiveResults(final), !.m1 = m1,
                          !.runs2 = runs2, !.m2 = m2]

----------------------------------------------------------------------------
(* The state machine *)

Ids(trks) == {trks[j].id : j \in DOMAIN trks}

\* the track ids in the pairs a pass accepted (the pair (-1, -1) is no track)
MatchedIds(p) == {q[2] : q \in Range(p.matched)} \ {-1}

\* no request has been made
ApiOff ==
    /\ request = <<>>
    /\ api_pc = "off"
    /\ exception = <<>>
    /\ response = <<>>
    /\ started = FALSE

\* no second tracker object exists
PairOff == instances = <<>> /\ calls = <<>> /\ returns = <<>>

\* no box has been given to calculate_iou
IouOff == iou_args = <<>> /\ iou_value = <<>>

\* process_video is not running
VideoOff ==
    /\ conf_thresh = 25
    /\ fps_sample = 1
    /\ fps = 1
    /\ frame_idx = 0
    /\ counts = <<>>
    /\ all_tracks = <<>>
    /\ processed_frames = 0
    /\ pv_status = "off"

\* src/config.py, lines 33-35
WEIGHT_AREA_FACTOR == <<15, 100>>
WEIGHT_DENSITY_FACTOR == <<1, 1>>
MIN_BOX_AREA == 100

\* WeightEstimator.__init__, lines 24-25
EstimatorNew ==
    /\ area_to_weight_factor = WEIGHT_AREA_FACTOR
    /\ density_factor = WEIGHT_DENSITY_FACTOR

\* estimate_weights has not been called
EstimatorOff == track_histories = <<>> /\ estimates = <<>> /\ EstimatorNew

\* ByteTracker.__init__, lines 33-35, and the history of a tracker that has
\* not been called
TrackerFresh ==
    /\ tracks = <<>>
    /\ next_id = 1
    /\ frame_count = 0
    /\ detections = <<>>
    /\ results = <<>>
    /\ raised = FALSE
    /\ pass1 = NoPass
    /\ pass2 = NoPass
    /\ ran2 = FALSE
    /\ prev_tracks = <<>>
    /\ prev_next_id = 1
    /\ prev_frame_count = 0
    /\ evicted = {}
    /\ prev_miss = <<>>
    /\ miss = <<>>
    /\ chain = TRUE
    /\ fed = 0
    /\ update_calls = 0

\* ByteTracker.__init__, lines 29-35, for each configuration
Init ==
    /\ track_thresh \in TrackThreshs
    /\ track_buffer \in TrackBuffers
    /\ match_thresh \in MatchThreshs
    /\ TrackerFresh
    /\ IouOff
    /\ EstimatorOff
    /\ VideoOff
    /\ PairOff
    /\ ApiOff

\* the frame dets continues a sequence of single, confident, overlapping boxes
ChainStep(dets) ==
    /\ Len(dets) = 1
    /\ dets[1][5] >= track_thresh
    /\ frame_count > 0 =>
          /\ Len(detections) = 1
          /\ RatGe(calculate_iou(SubSeq(dets[1], 1, 4),
                                 SubSeq(detections[1], 1, 4)), match_thresh)

\* one call tracker.update(dets), as it changes the tracker
TrackerStep(dets) ==
    /\ \E u \in {update(tracks, next_id, frame_count, dets, track_thresh,
                        track_buffer, match_thresh)} :
           /\ tracks' = u.tracks
           /\ next_id' = u.next_id
           /\ frame_count' = u.frame_count
           /\ results' = u.results
           /\ raised' = u.raised
           /\ pass1' = u.m1
           /\ pass2' = u.m2
           /\ ran2' = u.runs2
           /\ evicted' = evicted \cup (Ids(tracks) \ Ids(u.tracks))
           /\ miss' = [i \in Ids(u.tracks) |->
                         IF i \in MatchedIds(u.m1) \cup MatchedIds(u.m2)
                            \/ i \notin Ids(tracks)
                         THEN 0 ELSE miss[i] + 1]
    /\ detections' = dets
    /\ prev_tracks' = tracks
    /\ prev_next_id' = next_id
    /\ prev_frame_count' = frame_count
    /\ prev_miss' = miss
    /\ chain' = (chain /\ ChainStep(dets))
    /\ fed' = fed + Len(dets)
    /\ update_calls' = update_calls + 1
    /\ UNCHANGED <<track_thresh, track_buffer, match_thresh>>

\* one call tracker.update(dets) of the tracker driven directly
Update(dets) ==
    /\ frame_count < MaxFrames
    /\ fed + Len(dets) <= MaxFed
    /\ TrackerStep(dets)
    /\ UNCHANGED <<iou_vars, estimator_vars, video_vars, pair_vars, api_vars>>

Next == \E dets \in DetLists : Update(dets)

Spec == Init /\ [][Next]_vars

----------------------------------------------------------------------------
(* calculate_iou on its own: every pair of boxes of a grid, inverted and   *)
(* degenerate boxes (x2 <= x1 or y2 <= y1) included                        *)

GridBoxes == {<<x1, y1, x2, y2>> : x1 \in 0..MaxCoord, y1 \in 0..MaxCoord,
                                   x2 \in 0..MaxCoord, y2 \in 0..MaxCoord}

\* a tracker with the configuration of src/config.py, lines 28-30, that is
\* never called
TrackerOff ==
    /\ track_thresh = 50
    /\ track_buffer = 30
    /\ match_thresh = <<7, 10>>
    /\ TrackerFresh

IouInit ==
    /\ iou_args \in GridBoxes \X GridBoxes
    /\ iou_value = <<>>
    /\ TrackerOff
    /\ EstimatorOff
    /\ VideoOff
    /\ PairOff
    /\ ApiOff

\* calculate_iou(box1, box2) and calculate_iou(box2, box1)
CalculateIou ==
    /\ iou_value = <<>>
    /\ iou_value' = <<calculate_iou(iou_args[1], iou_args[2]),
                      calculate_iou(iou_args[2], iou_args[1])>>
    /\ UNCHANGED <<iou_args, tracker_vars, estimator_vars, video_vars,
                   pair_vars, api_vars>>

IouNext == CalculateIou

IouSpec == IouInit /\ [][IouNext]_vars

----------------------------------------------------------------------------
(* Two ByteTracker objects, each with the attributes __init__ gives it,    *)
(* called in any interleaving                                              *)

MaxCalls == 2       \* update is called at most MaxCalls times on each object

Instances == {"A", "B"}

\* track_thresh, track_buffer, match_thresh
PairConfigs == {<<50, 1, <<0, 1>>>>, <<50, 1, <<7, 10>>>>, <<50, 0, <<7, 10>>>>}

\* the frames given to the two objects
PairFrames == {<<>>, <<BoxA \o <<50>>>>, <<BoxC \o <<50>>>>,
               <<BoxB \o <<40>>, BoxC \o <<50>>>>}

\* ByteTracker(track_thresh, track_buffer, match_thresh): lines 29-35
ByteTracker(tt, buf, mt) ==
    [track_thresh |-> tt, track_buffer |-> buf, match_thresh |-> mt,
     tracks |-> <<>>, next_id |-> 1, frame_count |-> 0]

\* next_id_of, were next_id an attribute of the class: one counter for all
next_id_of_Class(i) ==
    CHOOSE n \in {instances[j].next_id : j \in Instances} :
        \A j \in Instances : instances[j].next_id <= n

\* self.next_id of the object i (line 34)
next_id_of(i) == instances[i].next_id

\* tracks_of, were tracks an attribute of the class: one dict for all,
\* which each object rebinds in its own name when it updates
tracks_of_Class(i) ==
    IF instances[i].tracks # <<>> THEN instances[i].tracks
    ELSE LET other == CHOOSE j \in Instances : j # i
         IN  instances[other].tracks

\* self.tracks of the object i (line 33)
tracks_of(i) == instances[i].tracks

\* what one call of update did: its return value, or the ValueError
Outcome(u) == [results |-> u.results, raised |-> u.raised]

\* update(dets) on the object t
UpdateTracker(t, tracks_t, next_id_t, dets) ==
    CHOOSE r \in {[tracker |-> [t EXCEPT !.tracks = u.tracks,
                                          !.next_id = u.next_id,
                                          !.frame_count = u.frame_count],
                   outcome |-> Outcome(u)] :
                      u \in {update(tracks_t, next_id_t, t.frame_count, dets,
                                    t.track_thresh, t.track_buffer,
                                    t.match_thresh)}} : TRUE

PairInit ==
    /\ instances \in [Instances -> {ByteTracker(c[1], c[2], c[3]) : c \in PairConfigs}]
    /\ calls = [i \in Instances |-> <<>>]
    /\ returns = [i \in Instances |-> <<>>]
    /\ TrackerOff
    /\ IouOff
    /\ EstimatorOff
    /\ VideoOff
    /\ ApiOff

\* one call instances[i].update(dets)
UpdateOf(i, dets) ==
    /\ Len(calls[i]) < MaxCalls
    /\ \E r \in {UpdateTracker(instances[i], tracks_of(i), next_id_of(i), dets)} :
          /\ instances' = [instances EXCEPT ![i] = r.tracker]
          /\ returns' = [returns EXCEPT ![i] = Append(@, r.outcome)]
    /\ calls' = [calls EXCEPT ![i] = Append(@, dets)]
    /\ UNCHANGED <<tracker_vars, iou_vars, estimator_vars, video_vars,
                   api_vars>>

PairNext == \E i \in Instances, dets \in PairFrames : UpdateOf(i, dets)

PairSpec == PairInit /\ [][PairNext]_vars

----------------------------------------------------------------------------
(* src/main.py: analyze_video, one request.  Thresholds in hundredths.     *)

FpsSampleFields == -1..3
ThreshFields == {-10, 0, 25, 100, 110}

\* HTTPException(status_code, detail); it is a subclass of Exception
HTTPException(status_code, detail) ==
    [type |-> "HTTPException", status_code |-> status_code, detail |-> detail]

\* an exception of the processing (lines 78-152)
ProcessingError == [type |-> "Exception", status_code |-> 0, detail |-> "processing"]

\* an exception raised inside the try block (lines 69-152) is caught by
\* `except Exception` (line 154)
AfterRaise(e) == [pc |-> "except", exception |-> e, response |-> <<>>]

ApiInit ==
    /\ request \in [fps_sample : FpsSampleFields, conf_thresh : ThreshFields,
                    iou_thresh : ThreshFields]
    /\ api_pc = "validate"
    /\ exception = <<>>
    /\ response = <<>>
    /\ started = FALSE
    /\ TrackerOff
    /\ IouOff
    /\ EstimatorOff
    /\ VideoOff
    /\ PairOff

\* lines 70-76
ValidateParameters ==
    /\ api_pc = "validate"
    /\ \E a \in {IF request.fps_sample < 1
                 THEN AfterRaise(HTTPException(400, "fps_sample must be >= 1"))
                 ELSE IF ~(0 <= request.conf_thresh /\ request.conf_thresh <= 100)
                 THEN AfterRaise(HTTPException(400, "conf_thresh must be between 0 and 1"))
                 ELSE IF ~(0 <= request.iou_thresh /\ request.iou_thresh <= 100)
                 THEN AfterRaise(HTTPException(400, "iou_thresh must be between 0 and 1"))
                 ELSE [pc |-> "process", exception |-> <<>>, response |-> <<>>]} :
          /\ api_pc' = a.pc
          /\ exception' = a.exception
          /\ response' = a.response
    /\ UNCHANGED <<request, started, tracker_vars, iou_vars, estimator_vars,
                   video_vars, pair_vars>>

\* lines 78-152: the video is saved and processed; the processing returns
\* and the handler answers 200, or something in it raises
ProcessRequest(ok) ==
    /\ api_pc = "process"
    /\ started' = TRUE
    /\ IF ok
       THEN /\ api_pc' = "done"
            /\ response' = [type |-> "JSONResponse", status_code |-> 200,
                            detail |-> "content"]
            /\ exception' = exception
       ELSE /\ api_pc' = "except"
            /\ exception' = ProcessingError
            /\ response' = response
    /\ UNCHANGED <<request, tracker_vars, iou_vars, estimator_vars, video_vars,
                   pair_vars>>

\* lines 154-156: the handler of the try block answers 500, with the text
\* of the exception it caught in the detail
ExceptException ==
    /\ api_pc = "except"
    /\ api_pc' = "done"
    /\ response' = HTTPException(500, <<"Error processing video: ", exception>>)
    /\ UNCHANGED <<request, exception, started, tracker_vars, iou_vars,
                   estimator_vars, video_vars, pair_vars>>

ApiNext ==
    \/ ValidateParameters
    \/ \E ok \in BOOLEAN : ProcessRequest(ok)
    \/ ExceptException

ApiSpec == ApiInit /\ [][ApiNext]_vars

----------------------------------------------------------------------------
(* src/weight_estimator.py                                                 *)
(*                                                                         *)
(* Numbers.  A real number is the exact rational <<num, den>> in lowest    *)
(* terms with den > 0; <<0, 0>> is NaN, the 0 / 0 of numpy.  exp(-0.01 k)  *)
(* is taken as (100 - k) / 100, its value to two decimals for k <= 3.      *)
(* Rounding of floating point arithmetic is not represented.               *)

RECURSIVE GCD(_, _)
GCD(a, b) == IF b = 0 THEN a ELSE GCD(b, a % b)

\* n / d in lowest terms, for n >= 0 and d > 0
Rat(n, d) == LET g == GCD(n, d) IN <<n \div g, d \div g>>

NaN == <<0, 0>>
IsNaN(x) == x[2] = 0

RatPlus(a, b) ==
    IF IsNaN(a) \/ IsNaN(b) THEN NaN
    ELSE Rat(a[1] * b[2] + b[1] * a[2], a[2] * b[2])

RatTimes(a, b) ==
    IF IsNaN(a) \/ IsNaN(b) THEN NaN ELSE Rat(a[1] * b[1], a[2] * b[2])

\* a / b; the only division by 0 the estimator can make is 0 / 0
RatOver(a, b) ==
    IF IsNaN(a) \/ IsNaN(b) \/ b[1] = 0 THEN NaN
    ELSE Rat(a[1] * b[2], a[2] * b[1])

RECURSIVE RatSum(_)
RatSum(xs) == IF xs = <<>> THEN <<0, 1>> ELSE RatPlus(xs[1], RatSum(Tail(xs)))

\* min(a, b) of Python: b if b < a, else a
RatMin(a, b) == IF RatLt(b, a) THEN b ELSE a

\* np.mean
np_mean(xs) == RatOver(RatSum(xs), <<Len(xs), 1>>)

\* np.average(values, weights=weights), values integers
np_average(values, weights) ==
    RatOver(RatSum([j \in DOMAIN values |-> RatTimes(<<values[j], 1>>, weights[j])]),
            RatSum(weights))

RECURSIVE Insert(_, _)
Insert(x, s) ==
    IF s = <<>> THEN <<x>>
    ELSE IF RatLt(s[1], x) THEN <<s[1]>> \o Insert(x, Tail(s))
    ELSE <<x>> \o s

RECURSIVE SortRat(_)
SortRat(xs) == IF xs = <<>> THEN <<>> ELSE Insert(xs[1], SortRat(Tail(xs)))

\* np.median
np_median(xs) ==
    LET sorted == SortRat(xs)
        n == Len(sorted)
    IN  IF n % 2 = 1 THEN sorted[(n + 1) \div 2]
        ELSE np_mean(<<sorted[n \div 2], sorted[(n \div 2) + 1]>>)

\* np.min, np.max
np_min(xs) == CHOOSE x \in Range(xs) : \A y \in Range(xs) : ~RatLt(y, x)
np_max(xs) == CHOOSE x \in Range(xs) : \A y \in Range(xs) : ~RatGt(y, x)

\* np.std(xs) = 0: the population standard deviation is a square root, of
\* which the model keeps whether it is 0, that is whether all values are equal
np_std_is_zero(xs) == \A i, j \in DOMAIN xs : xs[i] = xs[j]

\* lines 119-121: width * height
box_area(box) == (box[3] - box[1]) * (box[4] - box[2])

\* line 124
IsValidArea(area) == area > MIN_BOX_AREA

\* the indices valid_indices selects, in order
valid_indices(boxes) ==
    SelectSeq(SelectSeqIdx(boxes, 1), LAMBDA k : IsValidArea(box_area(boxes[k])))

\* exp(-0.01 * k)
Decay(k) == <<100 - k, 100>>

\* blend_weights with the decay counted back from the last observation
blend_weights_FromEnd(confs) ==
    LET raw == [j \in DOMAIN confs |->
                   RatTimes(Rat(confs[j], 100), Decay(Len(confs) - j))]
        total == RatSum(raw)
    IN  [j \in DOMAIN confs |-> RatOver(raw[j], total)]

\* lines 133-134: the normalized blending weights of the surviving
\* confidences; the k-th surviving observation is confs[k + 1]
blend_weights(confs) ==
    LET raw == [j \in DOMAIN confs |->
                   RatTimes(Rat(confs[j], 100), Decay(j - 1))]
        total == RatSum(raw)
    IN  [j \in DOMAIN confs |-> RatOver(raw[j], total)]

\* lines 125-147, for the observations with the indices valid
WeightIndexOf(boxes, confidences, valid) ==
    LET areas == [j \in DOMAIN valid |-> box_area(boxes[valid[j]])]
        confs == [j \in DOMAIN valid |-> confidences[valid[j]]]
        weights == blend_weights(confs)
        mean_area == np_average(areas, weights)
        weight_index == RatTimes(RatTimes(mean_area, area_to_weight_factor),
                                 density_factor)
        observation_confidence == RatMin(<<1, 1>>, Rat(Len(boxes), 30))
        detection_confidence == np_mean([j \in DOMAIN confs |-> Rat(confs[j], 100)])
        overall_confidence == RatOver(RatPlus(observation_confidence,
                                              detection_confidence), <<2, 1>>)
    IN  IF valid = <<>>
        THEN [weight_index |-> <<0, 1>>, confidence |-> <<0, 1>>]
        ELSE [weight_index |-> weight_index, confidence |-> overall_confidence]

\* _calculate_weight_index(boxes, confidences)
calculate_weight_index(boxes, confidences) ==
    WeightIndexOf(boxes, confidences, valid_indices(boxes))

\* Qualifies, also accepting a weight index that is not positive
Qualifies_NotNegative(weight_index) == ~RatLt(weight_index, <<0, 1>>)

\* line 53
Qualifies(weight_index) == RatGt(weight_index, <<0, 1>>)

RECURSIVE per_bird_weights(_, _)
\* the for loop of lines 41-61, from the k-th entry of the dict on
per_bird_weights(trks, k) ==
    IF k > Len(trks) THEN <<>>
    ELSE LET e == trks[k]
             r == calculate_weight_index(e.boxes, e.confidences)
         IN  IF Len(e.boxes) = 0 THEN per_bird_weights(trks, k + 1)
             ELSE IF Qualifies(r.weight_index)
             THEN <<[track_id |-> e.track_id, weight_index |-> r.weight_index,
                     confidence |-> r.confidence,
                     num_observations |-> Len(e.boxes)]>>
                  \o per_bird_weights(trks, k + 1)
             ELSE per_bird_weights(trks, k + 1)

\* lines 64-81
aggregate(all_weight_indices) ==
    IF Len(all_weight_indices) > 0
    THEN [mean_weight_index |-> np_mean(all_weight_indices),
          std_is_zero |-> np_std_is_zero(all_weight_indices),
          median_weight_index |-> np_median(all_weight_indices),
          min_weight_index |-> np_min(all_weight_indices),
          max_weight_index |-> np_max(all_weight_indices),
          total_birds |-> Len(all_weight_indices)]
    ELSE [mean_weight_index |-> <<0, 1>>, std_is_zero |-> TRUE,
          median_weight_index |-> <<0, 1>>, min_weight_index |-> <<0, 1>>,
          max_weight_index |-> <<0, 1>>, total_birds |-> 0]

\* estimate_weights(tracks)
estimate_weights(trks) ==
    LET per_bird == per_bird_weights(trks, 1)
    IN  [unit |-> "index", per_bird |-> per_bird,
         aggregate |-> aggregate([k \in DOMAIN per_bird |-> per_bird[k].weight_index])]

(* Track histories given to the estimator: boxes of area 25, 100 (BoxA),   *)
(* 120 and 400 with confidences in hundredths.                             *)
BoxS == <<0, 0, 5, 5>>
BoxM == <<0, 0, 10, 12>>
BoxL == <<0, 0, 20, 20>>

Observations == {<<BoxS, 50>>, <<BoxA, 100>>, <<BoxM, 50>>, <<BoxL, 100>>,
                 <<BoxL, 0>>}

\* one entry of the dict: the history of the track id with the observations obs
TrackHistory(id, obs) ==
    [track_id |-> id,
     boxes |-> [k \in DOMAIN obs |-> obs[k][1]],
     confidences |-> [k \in DOMAIN obs |-> obs[k][2]],
     frames |-> [k \in DOMAIN obs |-> k - 1]]

\* the track id is absent from the dict, or has up to n observations
EntryOptions(id, n) ==
    {<<>>} \cup {<<TrackHistory(id, obs)>> : obs \in SeqsUpTo(Observations, n)}

\* histories of one track whose first observation the area filter discards
\* and whose other two it keeps, and a history of three observations it
\* keeps, the first two of confidence 0
LateSurvivors ==
    {<<TrackHistory(1, <<<<BoxS, 50>>, b, c>>)>> :
        b, c \in {<<BoxM, 50>>, <<BoxM, 100>>, <<BoxL, 100>>, <<BoxL, 0>>}}
    \cup {<<TrackHistory(1, <<<<BoxL, 0>>, <<BoxL, 0>>, <<BoxM, 50>>>>)>>}

\* the dicts: two tracks with up to MaxObs observations each, or three
\* tracks with at most one observation each, or one of LateSurvivors
HistoryMaps ==
    {e1 \o e2 : e1 \in EntryOptions(1, MaxObs), e2 \in EntryOptions(2, MaxObs)}
    \cup {e1 \o e2 \o e3 : e1 \in EntryOptions(1, 1), e2 \in EntryOptions(2, 1),
                           e3 \in EntryOptions(3, 1)}
    \cup LateSurvivors

EstimatorInit ==
    /\ track_histories \in HistoryMaps
    /\ estimates = <<>>
    /\ EstimatorNew
    /\ TrackerOff
    /\ IouOff
    /\ VideoOff
    /\ PairOff
    /\ ApiOff

\* EstimateWeights, with a call that recalibrates the estimator
EstimateWeights_Rescaling ==
    /\ \E r \in {estimate_weights(track_histories)} :
          estimates' = IF Len(estimates) < 2 THEN Append(estimates, r)
                       ELSE <<estimates[2], r>>
    /\ density_factor' = <<2, 1>>
    /\ UNCHANGED <<track_histories, area_to_weight_factor, tracker_vars,
                   iou_vars, video_vars, pair_vars, api_vars>>

\* one call estimate_weights(track_histories); it writes to locals only:
\* the dict and the attributes of the estimator stay as they are
EstimateWeights ==
    /\ \E r \in {estimate_weights(track_histories)} :
          estimates' = IF Len(estimates) < 2 THEN Append(estimates, r)
                       ELSE <<estimates[2], r>>
    /\ UNCHANGED <<track_histories, area_to_weight_factor, density_factor,
                   tracker_vars, iou_vars, video_vars, pair_vars, api_vars>>

EstimatorNext == EstimateWeights

EstimatorSpec == EstimatorInit /\ [][EstimatorNext]_vars

----------------------------------------------------------------------------
(* src/video_processor.py: VideoProcessor.process_video, from the head of  *)
(* its while loop (line 83) on.  The video is opened; cap.read() delivers  *)
(* frame after frame and then fails.                                       *)

(* conf_thresh in hundredths, fps_sample, frames per second *)
ConfThreshs == {25, 50}
FpsSamples == {1, 2}
FrameRates == {1, 2}

\* detector.detect(frame): the model is called with conf = conf_thresh
\* (src/detector.py, lines 47-48) and returns boxes of that confidence or more
DetectorOutputs(conf) ==
    {dets \in DetLists : \A k \in DOMAIN dets : dets[k][5] >= conf}

\* frame_to_timestamp (src/utils.py): <<hours, minutes, secs>> of HH:MM:SS
frame_to_timestamp(fi, rate) ==
    LET seconds == fi \div rate
    IN  <<seconds \div 3600, (seconds % 3600) \div 60, seconds % 60>>

\* lines 55-81: the tracker is built with track_thresh = conf_thresh,
\* track_buffer = 30 and match_thresh = 0.7
VideoInit ==
    /\ conf_thresh \in ConfThreshs
    /\ track_thresh = conf_thresh
    /\ track_buffer = 30
    /\ match_thresh = <<7, 10>>
    /\ TrackerFresh
    /\ fps_sample \in FpsSamples
    /\ fps \in FrameRates
    /\ frame_idx = 0
    /\ counts = <<>>
    /\ all_tracks = <<>>
    /\ processed_frames = 0
    /\ pv_status = "running"
    /\ IouOff
    /\ EstimatorOff
    /\ PairOff
    /\ ApiOff

\* one turn of the loop for a frame that is not sampled (lines 84-89, 131)
SkipFrame ==
    /\ pv_status = "running"
    /\ frame_idx < MaxFrames
    /\ frame_idx % fps_sample # 0
    /\ frame_idx' = frame_idx + 1
    /\ UNCHANGED <<conf_thresh, fps_sample, fps, counts, all_tracks,
                   processed_frames, pv_status, tracker_vars, iou_vars,
                   estimator_vars, pair_vars, api_vars>>

\* one turn of the loop for a sampled frame in which the detector returns
\* dets (lines 84-131).  update returns a list of lists, so for the first
\* track of the for loop of line 109 track[:4] is a list, which has no
\* tolist: line 111 raises AttributeError, before anything is stored in
\* all_tracks and before processed_frames and frame_idx are incremented.
SampleFrame(dets) ==
    /\ pv_status = "running"
    /\ frame_idx < MaxFrames
    /\ frame_idx % fps_sample = 0
    /\ TrackerStep(dets)
    /\ IF raised'
       THEN /\ pv_status' = "ValueError"
            /\ UNCHANGED <<counts, processed_frames, frame_idx>>
       ELSE /\ counts' = Append(counts,
                                [timestamp |-> frame_to_timestamp(frame_idx, fps),
                                 count |-> Len(results'),
                                 frame |-> frame_idx])
            /\ IF Len(results') > 0
               THEN /\ pv_status' = "AttributeError"
                    /\ UNCHANGED <<processed_frames, frame_idx>>
               ELSE /\ processed_frames' = processed_frames + 1
                    /\ frame_idx' = frame_idx + 1
                    /\ pv_status' = pv_status
    /\ UNCHANGED <<conf_thresh, fps_sample, fps, all_tracks, iou_vars,
                   estimator_vars, pair_vars, api_vars>>

\* cap.read() fails: the loop ends and process_video returns counts,
\* dict(all_tracks) and processed_frames (lines 85-86, 133-146)
EndOfVideo ==
    /\ pv_status = "running"
    /\ pv_status' = "returned"
    /\ UNCHANGED <<conf_thresh, fps_sample, fps, frame_idx, counts,
                   all_tracks, processed_frames, tracker_vars, iou_vars,
                   estimator_vars, pair_vars, api_vars>>

VideoNext ==
    \/ SkipFrame
    \/ \E dets \in DetectorOutputs(conf_thresh) : SampleFrame(dets)
    \/ EndOfVideo

VideoSpec == VideoInit /\ [][VideoNext]_vars

----------------------------------------------------------------------------
(* Vocabulary of the properties *)

\* a call has been made, and the last one returned
Returned == frame_count > 0 /\ ~raised

\* the tracks the last call added to the dict, in dict order
NewTracks == SelectSeq(tracks, LAMBDA t : t.id \notin Ids(prev_tracks))

\* the tracks that are active after the last call
Active == {t \in Range(tracks) : t.age = 0}

\* the ids a list of results names
ResultIds(res) == {res[k][5] : k \in DOMAIN res}

----------------------------------------------------------------------------
(* C1 *)

\* C1: track ids are unique and never reused: the tracks in the dict have
\* pairwise distinct ids; the tracks a call creates receive, in order, the
\* values next_id had (prev_next_id, prev_next_id + 1, ...) and next_id grows
\* by one with each of them and never decreases; an id that was deleted from
\* the dict is not the id of any later track.
C1_IdsUniqueNeverReused ==
    /\ \A i, j \in DOMAIN tracks : i # j => tracks[i].id # tracks[j].id
    /\ next_id >= prev_next_id
    /\ \A k \in DOMAIN NewTracks : NewTracks[k].id = prev_next_id + k - 1
    /\ next_id = prev_next_id + Len(NewTracks)
    /\ evicted \cap Ids(tracks) = {}
    /\ \A e \in evicted : e < next_id

\* a track was evicted earlier and the last call created a track
C1_Witness ==
    /\ evicted # {}
    /\ Len(NewTracks) >= 1
    /\ \A e \in evicted : \A k \in DOMAIN NewTracks : NewTracks[k].id > e

----------------------------------------------------------------------------
(* C4 *)

\* C4: when update returns, its result lists exactly the tracks whose age is
\* 0 after the call, each once, as box + id; each of them was matched or
\* created by this call; tracks that were only aged stay in the dict and are
\* not returned; with no detections the result is empty.
C4_ResultIsActiveTracks ==
    Returned =>
        /\ Range(results) = {t.box \o <<t.id>> : t \in Active}
        /\ Len(results) = Cardinality(Active)
        /\ \A t \in Active :
              t.id \in MatchedIds(pass1) \cup MatchedIds(pass2) \cup Ids(NewTracks)
        /\ \A t \in Range(tracks) : t.age > 0 => t.id \notin ResultIds(results)
        /\ detections = <<>> => results = <<>>

\* the call returned a track while another, aged, track stayed in the dict
C4_Witness ==
    /\ Returned
    /\ Len(results) >= 1
    /\ \E t \in Range(tracks) : t.age > 0 /\ t.id \notin ResultIds(results)

----------------------------------------------------------------------------
(* C5 *)

\* C5: update never raises, for every configuration with track_thresh and
\* match_thresh in [0, 1] and track_buffer >= 1 and every detection list.
C5_UpdateNeverRaises ==
    (/\ track_thresh >= 0 /\ track_thresh <= 100
     /\ RatGe(match_thresh, <<0, 1>>) /\ RatGe(<<1, 1>>, match_thresh)
     /\ track_buffer >= 1)
    => ~raised

----------------------------------------------------------------------------
(* C10 *)

\* C10: a call with an empty detection list increments frame_count, adds 1 to
\* the age of every track, deletes the tracks whose age now exceeds
\* track_buffer, returns the empty list and changes nothing else: next_id
\* and the box, confidence, hits and start_frame of the surviving tracks
\* stay, their order stays, and no track is created.
C10_EmptyFrame ==
    (frame_count > 0 /\ detections = <<>>) =>
        /\ ~raised
        /\ results = <<>>
        /\ frame_count = prev_frame_count + 1
        /\ next_id = prev_next_id
        /\ \A t \in Range(tracks) : t.id \in Ids(prev_tracks)
        /\ \A j \in DOMAIN prev_tracks :
              IF prev_tracks[j].age + 1 > track_buffer
              THEN prev_tracks[j].id \notin Ids(tracks)
              ELSE [prev_tracks[j] EXCEPT !.age = @ + 1] \in Range(tracks)
        /\ Len(tracks) = Cardinality({j \in DOMAIN prev_tracks :
                                        prev_tracks[j].age + 1 <= track_buffer})
        /\ \A i, j \in DOMAIN tracks : i < j => tracks[i].id < tracks[j].id

\* an empty frame aged one track that survived and deleted another
C10_Witness ==
    /\ frame_count > 0
    /\ detections = <<>>
    /\ \E t \in Range(tracks) : t.age = track_buffer /\ t.age >= 1
    /\ Ids(prev_tracks) \ Ids(tracks) # {}

----------------------------------------------------------------------------
(* C2 *)

\* what the last call did to the track p of prev_tracks, by _match's results
WasMatched(p) == p.id \in MatchedIds(pass1) \cup MatchedIds(pass2)

\* the number of consecutive calls, the last one included, that left the
\* track p of prev_tracks unmatched
MissAfter(p) == IF WasMatched(p) THEN 0 ELSE prev_miss[p.id] + 1

\* C2: a track unmatched for at most track_buffer consecutive calls is still
\* in the dict, with age = track_buffer when the number is exactly
\* track_buffer; after one more unmatched call it is not in the dict; a
\* deleted id is in no later result, and every track created later has a
\* larger id.
C2_EvictionBoundary ==
    /\ \A j \in DOMAIN prev_tracks :
          LET p == prev_tracks[j]
          IN  /\ MissAfter(p) <= track_buffer => p.id \in Ids(tracks)
              /\ (MissAfter(p) = track_buffer /\ p.id \in Ids(tracks))
                    => TrackOf(tracks, p.id).age = track_buffer
              /\ MissAfter(p) > track_buffer => p.id \notin Ids(tracks)
    /\ evicted \cap ResultIds(results) = {}
    /\ evicted \cap Ids(tracks) = {}
    /\ \A k \in DOMAIN NewTracks : \A e \in evicted : NewTracks[k].id > e

----------------------------------------------------------------------------
(* C3 *)

\* the age the claim gives the track p of prev_tracks after the last call
ClaimedAge(p) == IF WasMatched(p) THEN 0 ELSE p.age + 1

\* C3: after every call, a track that was in the dict before and is in it
\* after has age 0 if _match paired it in pass 1 or pass 2, and its previous
\* age plus 1 otherwise; a track is deleted by the call iff that age exceeds
\* track_buffer.
C3_AgeTransition ==
    frame_count > 0 =>
        \A j \in DOMAIN prev_tracks :
            LET p == prev_tracks[j]
            IN  /\ p.id \notin Ids(tracks) <=> ClaimedAge(p) > track_buffer
                /\ p.id \in Ids(tracks) => TrackOf(tracks, p.id).age = ClaimedAge(p)

----------------------------------------------------------------------------
(* C6 *)

\* the high-confidence detections of the last call, in order
LastHigh == SelectSeq(detections, LAMBDA d : d[5] >= track_thresh)

\* the low-confidence detections of the last call, in order
LastLow == SelectSeq(detections, LAMBDA d : d[5] < track_thresh)

\* C6: in a call with detections, the tracks created are, in order, one for
\* each high-confidence detection pass 1 left unmatched, and no other; each
\* has the detection's box and confidence, age 0, hits 1 and start_frame =
\* frame_count.  (So a low-confidence detection creates none.)
C6_TrackCreation ==
    (frame_count > 0 /\ detections # <<>>) =>
        /\ Len(NewTracks) = Len(pass1.unmatched_dets)
        /\ \A k \in DOMAIN NewTracks \cap DOMAIN pass1.unmatched_dets :
              LET d == LastHigh[pass1.unmatched_dets[k]]
                  t == NewTracks[k]
              IN  /\ t.box = SubSeq(d, 1, 4)
                  /\ t.confidence = d[5]
                  /\ t.confidence >= track_thresh
                  /\ t.age = 0
                  /\ t.hits = 1
                  /\ t.start_frame = frame_count

----------------------------------------------------------------------------
(* C7 *)

\* the pass p over the detections dets and the tracks with ids cand is the
\* greedy matching: it returned; its k-th pair joins a detection and a track
\* that no earlier pair holds, has an IoU >= match_thresh and no pair of
\* still unmatched detection and track has a larger IoU; at the end a side is
\* exhausted or every remaining IoU is < match_thresh; the unmatched lists
\* hold exactly the rest, each once.
GreedyOK(p, dets, cand) ==
    LET n == Len(p.matched)
        iou(i, tid) == calculate_iou(SubSeq(dets[i], 1, 4),
                                     TrackOf(prev_tracks, tid).box)
        left_d(k) == (1..Len(dets)) \ {p.matched[m][1] : m \in 1..(k - 1)}
        left_t(k) == cand \ {p.matched[m][2] : m \in 1..(k - 1)}
    IN  /\ ~p.raised
        /\ \A k \in 1..n :
              /\ p.matched[k][1] \in left_d(k)
              /\ p.matched[k][2] \in left_t(k)
              /\ RatGe(iou(p.matched[k][1], p.matched[k][2]), match_thresh)
              /\ \A i \in left_d(k) : \A t \in left_t(k) :
                    RatGe(iou(p.matched[k][1], p.matched[k][2]), iou(i, t))
        /\ \/ left_d(n + 1) = {}
           \/ left_t(n + 1) = {}
           \/ \A i \in left_d(n + 1) : \A t \in left_t(n + 1) :
                    RatLt(iou(i, t), match_thresh)
        /\ Range(p.unmatched_dets) = left_d(n + 1)
        /\ Len(p.unmatched_dets) = Cardinality(left_d(n + 1))
        /\ Range(p.unmatched_tracks) = left_t(n + 1)
        /\ Len(p.unmatched_tracks) = Cardinality(left_t(n + 1))

\* C7: each pass of _match is the greedy matching of its candidate
\* detections and candidate tracks, and its three lists partition them.
C7_GreedyMatching ==
    (frame_count > 0 /\ detections # <<>>) =>
        /\ GreedyOK(pass1, LastHigh, Ids(prev_tracks))
        /\ ran2 => GreedyOK(pass2, LastLow, Range(pass1.unmatched_tracks))

----------------------------------------------------------------------------
(* C8 *)

\* the track ids of the pairs the two passes accepted, in order
PairedIds == [k \in 1..(Len(pass1.matched) + Len(pass2.matched)) |->
                 IF k <= Len(pass1.matched) THEN pass1.matched[k][2]
                 ELSE pass2.matched[k - Len(pass1.matched)][2]]

\* C8: pass 2 runs only with low-confidence detections and tracks pass 1
\* left unmatched, and pairs only those tracks; over the two passes no track
\* is paired twice; a track paired in pass 1 ends the call with its previous
\* box and confidence or those of its pass 1 detection, never those of a
\* low-confidence detection; hits grows by at most 1 per call.
C8_SecondPassIsolation ==
    frame_count > 0 =>
        /\ ran2 => (Len(LastLow) > 0 /\ Len(pass1.unmatched_tracks) > 0)
        /\ ~ran2 => pass2.matched = <<>>
        /\ MatchedIds(pass2) \subseteq Range(pass1.unmatched_tracks)
        /\ MatchedIds(pass2) \cap MatchedIds(pass1) = {}
        /\ \A i, j \in DOMAIN PairedIds :
              (i # j /\ PairedIds[i] # -1) => PairedIds[i] # PairedIds[j]
        /\ \A k \in DOMAIN pass1.matched :
              LET q == pass1.matched[k]
              IN  (q[2] # -1 /\ q[2] \in Ids(tracks)) =>
                     LET t == TrackOf(tracks, q[2])
                         p == TrackOf(prev_tracks, q[2])
                         d == LastHigh[q[1]]
                     IN  \/ (t.box = SubSeq(d, 1, 4) /\ t.confidence = d[5])
                         \/ (t.box = p.box /\ t.confidence = p.confidence)
        /\ \A j \in DOMAIN prev_tracks :
              prev_tracks[j].id \in Ids(tracks) =>
                 TrackOf(tracks, prev_tracks[j].id).hits <= prev_tracks[j].hits + 1

\* pass 2 ran beside a track that pass 1 had paired, and paired another track
C8_Witness ==
    /\ Returned
    /\ ran2
    /\ MatchedIds(pass1) # {}
    /\ MatchedIds(pass2) # {}

----------------------------------------------------------------------------
(* C9 *)

\* C9: while every frame carries exactly one detection, of high confidence,
\* whose IoU with the previous frame's detection is >= match_thresh, every
\* update returns exactly one entry, with the id the first frame assigned
\* (1, the initial next_id), and no other id is created.
C9_IdentityStability ==
    (chain /\ frame_count > 0) =>
        /\ ~raised
        /\ Len(results) = 1
        /\ results[1][5] = 1
        /\ next_id = 2

----------------------------------------------------------------------------
(* C11 *)

\* the place of the track tid in the insertion order of the dict the last
\* call found
InsertionPos(tid) == CHOOSE j \in DOMAIN prev_tracks : prev_tracks[j].id = tid

\* every pair the pass p accepted over the detections dets and the tracks
\* with ids cand is, among the still unmatched pairs that have its IoU, the
\* first in iteration order: no such pair has a lower detection index, and
\* none with the same detection has a track inserted earlier.
FirstOfTies(p, dets, cand) ==
    LET iou(i, tid) == calculate_iou(SubSeq(dets[i], 1, 4),
                                     TrackOf(prev_tracks, tid).box)
        left_d(k) == (1..Len(dets)) \ {p.matched[m][1] : m \in 1..(k - 1)}
        left_t(k) == cand \ {p.matched[m][2] : m \in 1..(k - 1)}
    IN  \A k \in DOMAIN p.matched :
           LET q == p.matched[k]
           IN  /\ q[1] \in left_d(k)
               /\ q[2] \in left_t(k)
               /\ \A i \in left_d(k) : \A t \in left_t(k) :
                     (~RatLt(iou(i, t), iou(q[1], q[2]))
                        /\ ~RatGt(iou(i, t), iou(q[1], q[2]))) =>
                         /\ q[1] <= i
                         /\ i = q[1] => InsertionPos(q[2]) <= InsertionPos(t)

\* C11: when several still unmatched pairs share the maximum IoU, the pair
\* _match accepts is the first in iteration order: the lowest detection index
\* of the candidate list and, for that detection, the earliest track in
\* insertion order.
C11_TieBreaking ==
    frame_count > 0 =>
        /\ FirstOfTies(pass1, LastHigh, Ids(prev_tracks))
        /\ FirstOfTies(pass2, LastLow, Range(pass1.unmatched_tracks))

\* a pass accepted one of two pairs of equal, positive IoU: two tracks at the
\* box of one detection, or two detections at the box of one track
C11_TieSeen ==
    /\ Returned
    /\ \E k \in DOMAIN pass1.matched :
          LET q == pass1.matched[k]
          IN  \/ \E j \in DOMAIN prev_tracks :
                    /\ prev_tracks[j].id # q[2]
                    /\ prev_tracks[j].id \notin
                          {pass1.matched[m][2] : m \in 1..(k - 1)}
                    /\ prev_tracks[j].box = TrackOf(prev_tracks, q[2]).box
                    /\ calculate_iou(SubSeq(LastHigh[q[1]], 1, 4),
                                     prev_tracks[j].box)[1] > 0
              \/ \E i \in DOMAIN LastHigh :
                    /\ i # q[1]
                    /\ i \notin {pass1.matched[m][1] : m \in 1..(k - 1)}
                    /\ SubSeq(LastHigh[i], 1, 4) = SubSeq(LastHigh[q[1]], 1, 4)
                    /\ calculate_iou(SubSeq(LastHigh[i], 1, 4),
                                     TrackOf(prev_tracks, q[2]).box)[1] > 0

\* with a positive match_thresh the tie-breaking rule of C11 holds
TieBreakAtPositiveThresh ==
    RatGt(match_thresh, <<0, 1>>) => C11_TieBreaking

----------------------------------------------------------------------------
(* C12 *)

\* the configuration is in the ranges of spec 7: both thresholds in [0, 1]
\* and track_buffer positive
ValidConfiguration ==
    /\ 0 <= track_thresh /\ track_thresh <= 100
    /\ ~RatLt(match_thresh, <<0, 1>>) /\ ~RatGt(match_thresh, <<1, 1>>)
    /\ track_buffer >= 1

\* C12: a tracker whose track_thresh or match_thresh is outside [0, 1] or
\* whose track_buffer is not positive is rejected at construction, so no
\* update call ever runs under such a configuration.
C12_ConfigurationValidated == frame_count > 0 => ValidConfiguration

----------------------------------------------------------------------------
(* C20 *)

RatEq(a, b) == a[1] * b[2] = b[1] * a[2]

\* the point (px / 2, py / 2) lies in the interior of the box a
InInterior(px, py, a) ==
    /\ 2 * a[1] < px /\ px < 2 * a[3]
    /\ 2 * a[2] < py /\ py < 2 * a[4]

\* the interiors of a and b share a point (if they share one, they share one
\* with half-integer coordinates)
InteriorsMeet(a, b) ==
    \E px, py \in 0..(2 * MaxCoord) : InInterior(px, py, a) /\ InInterior(px, py, b)

\* C20: calculate_iou(a, b) = calculate_iou(b, a) for all boxes; the IoU of
\* a box of positive width and height with itself is 1; the IoU of two boxes
\* whose interiors share no point (boxes that only touch along an edge or at
\* a corner included) is exactly 0.
C20_IouAlgebra ==
    iou_value # <<>> =>
        LET a == iou_args[1]
            b == iou_args[2]
        IN  /\ RatEq(iou_value[1], iou_value[2])
            /\ (a = b /\ a[3] > a[1] /\ a[4] > a[2]) =>
                  (iou_value[1][1] = iou_value[1][2] /\ iou_value[1][2] > 0)
            /\ ~InteriorsMeet(a, b) => iou_value[1][1] = 0

\* calculate_iou was applied to two boxes of positive width and height that
\* touch along an edge
C20_Witness ==
    /\ iou_value # <<>>
    /\ LET a == iou_args[1]
           b == iou_args[2]
       IN  /\ a[1] < a[3] /\ a[2] < a[4] /\ b[1] < b[3] /\ b[2] < b[4]
           /\ a[3] = b[1]
           /\ Max2(a[2], b[2]) < Min2(a[4], b[4])
           /\ iou_value[1][1] = 0

\* calculate_iou was applied to two different boxes that overlap in part
C20_OverlapSeen ==
    /\ iou_value # <<>>
    /\ iou_args[1] # iou_args[2]
    /\ iou_value[1][1] > 0
    /\ iou_value[1][1] < iou_value[1][2]

----------------------------------------------------------------------------
(* C21 *)

\* width times height of a box, negative when one of them is
SignedArea(a) == (a[3] - a[1]) * (a[4] - a[2])

\* the number of unit cells of the grid that lie in both boxes
SharedCells(a, b) ==
    Cardinality({c \in (0..(MaxCoord - 1)) \X (0..(MaxCoord - 1)) :
                    /\ a[1] <= c[1] /\ c[1] < a[3] /\ a[2] <= c[2] /\ c[2] < a[4]
                    /\ b[1] <= c[1] /\ c[1] < b[3] /\ b[2] <= c[2] /\ c[2] < b[4]})

\* zero or negative width or height
DegenerateOrInverted(a) == a[3] <= a[1] \/ a[4] <= a[2]

\* C21: for every pair of boxes, boxes of zero or negative width or height
\* included, calculate_iou divides by a positive union only and returns a
\* value in [0, 1]; it returns 0 whenever the union area (area1 + area2 -
\* intersection) is not positive, and 0 whenever one of the boxes is
\* degenerate or inverted.
C21_IouRange ==
    iou_value # <<>> =>
        \A o \in {<<1, 2>>, <<2, 1>>} :
            LET a == iou_args[o[1]]
                b == iou_args[o[2]]
                v == iou_value[o[1]]
            IN  /\ v[2] > 0
                /\ 0 <= v[1] /\ v[1] <= v[2]
                /\ SignedArea(a) + SignedArea(b) - SharedCells(a, b) <= 0 => v[1] = 0
                /\ (DegenerateOrInverted(a) \/ DegenerateOrInverted(b)) => v[1] = 0

\* calculate_iou was applied to a box of negative area and a box of smaller
\* positive area, a pair whose union area is negative
C21_Witness ==
    /\ iou_value # <<>>
    /\ SignedArea(iou_args[1]) < 0
    /\ SignedArea(iou_args[2]) > 0
    /\ SignedArea(iou_args[1]) + SignedArea(iou_args[2]) < 0
    /\ iou_value[1] = <<0, 1>>

\* calculate_iou was applied to a box and an inverted box of positive area
\* (both extents negative): the union is positive and the value is 0
C21_InvertedPositiveArea ==
    /\ iou_value # <<>>
    /\ iou_args[1][3] < iou_args[1][1] /\ iou_args[1][4] < iou_args[1][2]
    /\ SignedArea(iou_args[2]) > 0 /\ ~DegenerateOrInverted(iou_args[2])
    /\ iou_value[1][1] = 0 /\ iou_value[1][2] > 1

----------------------------------------------------------------------------
(* Vocabulary of the estimator properties *)

\* estimate_weights has been called
Estimated == estimates # <<>>

\* what its last call returned
LastEstimate == estimates[Len(estimates)]

\* the track ids of the per_bird records
PerBirdIds == {LastEstimate.per_bird[k].track_id : k \in DOMAIN LastEstimate.per_bird}

\* the per_bird record of the track id
RecordOf(id) == CHOOSE r \in Range(LastEstimate.per_bird) : r.track_id = id

\* the entry of the dict for the track id
HistoryOf(id) == CHOOSE e \in Range(track_histories) : e.track_id = id

\* the indices of the observations whose area is not below MIN_BOX_AREA
NotBelowMinimum(boxes) ==
    SelectSeq(SelectSeqIdx(boxes, 1), LAMBDA k : box_area(boxes[k]) >= MIN_BOX_AREA)

RECURSIVE RatLeq(_, _)
\* a <= b for rationals >= 0, by their continued fractions (no products)
RatLeq(a, b) ==
    LET fa == a[1] \div a[2]
        fb == b[1] \div b[2]
        ra == a[1] % a[2]
        rb == b[1] % b[2]
    IN  IF fa # fb THEN fa < fb
        ELSE IF ra = 0 THEN TRUE
        ELSE IF rb = 0 THEN FALSE
        ELSE RatLeq(<<b[2], rb>>, <<a[2], ra>>)

----------------------------------------------------------------------------
(* C15 *)

\* C15: the estimator discards exactly the observations whose area is below
\* MIN_BOX_AREA, so that an observation whose area equals it survives: a
\* track none of whose observations has an area >= MIN_BOX_AREA has no
\* per_bird record, and a track that has such observations (one of them with
\* a positive confidence) has a record whose weight index is the one of
\* exactly those observations.
C15_AreaFilter ==
    Estimated =>
        \A k \in DOMAIN track_histories :
            LET e == track_histories[k]
                kept == NotBelowMinimum(e.boxes)
            IN  Len(e.boxes) > 0 =>
                   IF kept = <<>> THEN e.track_id \notin PerBirdIds
                   ELSE (\E j \in Range(kept) : e.confidences[j] > 0) =>
                           /\ e.track_id \in PerBirdIds
                           /\ RecordOf(e.track_id).weight_index =
                                 WeightIndexOf(e.boxes, e.confidences, kept).weight_index

\* the part of C15 that holds: a track none of whose observations has an
\* area >= MIN_BOX_AREA has no per_bird record
NoSurvivorNoRecord ==
    Estimated =>
        \A k \in DOMAIN track_histories :
            LET e == track_histories[k]
            IN  NotBelowMinimum(e.boxes) = <<>> => e.track_id \notin PerBirdIds

----------------------------------------------------------------------------
(* C16 *)

\* C16: the confidence of every per_bird record is the average of
\* min(1, N / 30) and the mean confidence of all N observations of the
\* track, those the area filter discarded included.
C16_ConfidenceOverAll ==
    Estimated =>
        \A r \in Range(LastEstimate.per_bird) :
            LET e == HistoryOf(r.track_id)
                N == Len(e.boxes)
                all == [k \in DOMAIN e.confidences |-> Rat(e.confidences[k], 100)]
            IN  r.confidence =
                   RatOver(RatPlus(RatMin(<<1, 1>>, Rat(N, 30)), np_mean(all)),
                           <<2, 1>>)

\* what the code computes: N counts all observations, the mean is over the
\* observations that passed the area filter
ConfidenceOverSurvivors ==
    Estimated =>
        \A r \in Range(LastEstimate.per_bird) :
            LET e == HistoryOf(r.track_id)
                N == Len(e.boxes)
                valid == valid_indices(e.boxes)
                kept == [j \in DOMAIN valid |-> Rat(e.confidences[valid[j]], 100)]
            IN  r.confidence =
                   RatOver(RatPlus(RatMin(<<1, 1>>, Rat(N, 30)), np_mean(kept)),
                           <<2, 1>>)

----------------------------------------------------------------------------
(* C17 *)

\* the scenario of C17: observations of areas [100, 100] and [400, 400],
\* all of confidence 1.0
Scenario ==
    <<TrackHistory(1, <<<<BoxA, 100>>, <<BoxA, 100>>>>),
      TrackHistory(2, <<<<BoxL, 100>>, <<BoxL, 100>>>>)>>

\* C17: the weight index of every per_bird record is the normalized-weighted
\* average of the surviving areas (those not below MIN_BOX_AREA) times
\* WEIGHT_AREA_FACTOR times WEIGHT_DENSITY_FACTOR; for the scenario the
\* weight indices are 15.0 and 60.0 and the aggregate has mean 37.5,
\* min 15.0, max 60.0 and total_birds 2.
C17_WeightIndex ==
    Estimated =>
        /\ \A r \in Range(LastEstimate.per_bird) :
              LET e == HistoryOf(r.track_id)
              IN  r.weight_index =
                     WeightIndexOf(e.boxes, e.confidences,
                                   NotBelowMinimum(e.boxes)).weight_index
        /\ track_histories = Scenario =>
              /\ Len(LastEstimate.per_bird) = 2
              /\ LastEstimate.per_bird[1].weight_index = <<15, 1>>
              /\ LastEstimate.per_bird[2].weight_index = <<60, 1>>
              /\ LastEstimate.aggregate.mean_weight_index = <<75, 2>>
              /\ LastEstimate.aggregate.min_weight_index = <<15, 1>>
              /\ LastEstimate.aggregate.max_weight_index = <<60, 1>>
              /\ LastEstimate.aggregate.total_birds = 2

\* what the code computes for the scenario: the observations of area 100
\* are discarded, and the only record is that of track 2
ScenarioAsComputed ==
    (Estimated /\ track_histories = Scenario) =>
        /\ PerBirdIds = {2}
        /\ LastEstimate.per_bird[1].weight_index = <<60, 1>>
        /\ LastEstimate.aggregate.mean_weight_index = <<60, 1>>
        /\ LastEstimate.aggregate.total_birds = 1

----------------------------------------------------------------------------
(* C18 *)

C18_NoneQualifies ==
    /\ Estimated
    /\ \E k \in DOMAIN track_histories : Len(track_histories[k].boxes) > 0
    /\ LastEstimate.per_bird = <<>>
    /\ LastEstimate.aggregate.total_birds = 0

----------------------------------------------------------------------------
(* C22 *)

----------------------------------------------------------------------------
(* Vocabulary of the properties of two trackers *)

\* the configuration the object i was constructed with
ConfigOf(i) == <<instances[i].track_thresh, instances[i].track_buffer,
                 instances[i].match_thresh>>

\* one more call update(dets) on the tracker of the run before
Extend(before, dets) ==
    CHOOSE a \in
        {[tracker |-> r.tracker, returns |-> Append(before.returns, r.outcome)] :
            r \in {UpdateTracker(before.tracker, before.tracker.tracks,
                                 before.tracker.next_id, dets)}} : TRUE

RECURSIVE RunAlone(_, _)
\* a tracker constructed like t and given the calls cs, with no other
\* tracker around: the object and what its calls returned
RunAlone(t, cs) ==
    IF cs = <<>> THEN [tracker |-> t, returns |-> <<>>]
    ELSE CHOOSE a \in
            {Extend(before, cs[Len(cs)]) :
                before \in {RunAlone(t, SubSeq(cs, 1, Len(cs) - 1))}} : TRUE

IsPrefix(s, t) == Len(s) <= Len(t) /\ s = SubSeq(t, 1, Len(s))

----------------------------------------------------------------------------
(* C23 *)

C23_BothRaise ==
    /\ instances # <<>>
    /\ calls["A"] = calls["B"]
    /\ Len(returns["A"]) = 2 /\ Len(returns["B"]) = 2
    /\ returns["A"][2].raised /\ returns["B"][2].raised

----------------------------------------------------------------------------
(* C24 *)

----------------------------------------------------------------------------
(* C25 *)

\* the confidences of the observations of e that pass the area filter, in
\* temporal order
SurvivingConfidences(e) ==
    LET valid == valid_indices(e.boxes)
    IN  [j \in DOMAIN valid |-> e.confidences[valid[j]]]

\* the areas of the observations of e that pass the area filter
SurvivingAreas(e) ==
    LET valid == valid_indices(e.boxes)
    IN  [j \in DOMAIN valid |-> box_area(e.boxes[valid[j]])]

\* confidence * exp(-0.01 * k) for each surviving observation, k counted
\* from 0 at the first surviving observation
RawWeights(confs) ==
    [j \in DOMAIN confs |-> RatTimes(Rat(confs[j], 100), Decay(j - 1))]

\* the weight index the blending weights w give to the surviving areas
BlendedIndex(areas, w) ==
    RatTimes(RatSum([j \in DOMAIN areas |-> RatTimes(<<areas[j], 1>>, w[j])]),
             RatTimes(WEIGHT_AREA_FACTOR, WEIGHT_DENSITY_FACTOR))

C25_ZeroWeightsSeen ==
    /\ Estimated
    /\ \E e \in Range(track_histories) :
          LET confs == SurvivingConfidences(e)
              w == blend_weights(confs)
          IN  /\ Len(confs) = 3
              /\ confs[1] = 0 /\ confs[2] = 0 /\ confs[3] > 0
              /\ w[1] = <<0, 1>> /\ w[2] = <<0, 1>> /\ w[3] = <<1, 1>>
              /\ e.track_id \in PerBirdIds

----------------------------------------------------------------------------
(* C26 *)

\* the request has a field that analyze_video rejects
InvalidRequest ==
    \/ request.fps_sample < 1
    \/ request.conf_thresh < 0 \/ request.conf_thresh > 100
    \/ request.iou_thresh < 0 \/ request.iou_thresh > 100

\* the message for the first field that fails, in the order of the tests
MatchingDetail ==
    IF request.fps_sample < 1 THEN "fps_sample must be >= 1"
    ELSE IF request.conf_thresh < 0 \/ request.conf_thresh > 100
    THEN "conf_thresh must be between 0 and 1"
    ELSE "iou_thresh must be between 0 and 1"

\* C26: a request with fps_sample < 1, or conf_thresh or iou_thresh outside
\* [0, 1], is answered with status 400 and the matching detail, and no
\* video processing is started for it.
C26_ParameterValidation ==
    (api_pc # "off" /\ InvalidRequest) =>
        /\ ~started
        /\ api_pc # "process"
        /\ api_pc = "done" =>
              /\ response.status_code = 400
              /\ response.detail = MatchingDetail

\* what analyze_video does with such a request: the HTTPException of the
\* validation is caught by the handler of the try block, and the answer is
\* 500 with the 400 exception inside its detail; no processing is started
InvalidRequestAnswered500 ==
    (api_pc # "off" /\ InvalidRequest) =>
        /\ ~started
        /\ api_pc # "process"
        /\ api_pc = "done" =>
              /\ response.status_code = 500
              /\ response.detail =
                    <<"Error processing video: ", HTTPException(400, MatchingDetail)>>

----------------------------------------------------------------------------
(* C27 *)

\* the id of the track that accounts for the k-th high-confidence detection
\* of the last call: the track pass 1 paired it with, or else the track
\* created for it (0 if there is neither)
TrackOfHigh(k) ==
    IF \E q \in Range(pass1.matched) : q[1] = k
    THEN (CHOOSE q \in Range(pass1.matched) : q[1] = k)[2]
    ELSE IF \E n \in DOMAIN pass1.unmatched_dets \cap DOMAIN NewTracks :
               pass1.unmatched_dets[n] = k
    THEN NewTracks[CHOOSE n \in DOMAIN pass1.unmatched_dets \cap DOMAIN NewTracks :
                      pass1.unmatched_dets[n] = k].id
    ELSE 0

\* C27: in a call with detections (track_buffer >= 0), every detection of
\* confidence >= track_thresh accounts for exactly one returned entry, that
\* of the track it was paired with or of the track created for it, and
\* different detections for different entries; the number of returned
\* entries is the number of these detections plus the number of
\* low-confidence detections paired in pass 2, is at most the number of
\* detections, and the returned ids are pairwise distinct.
C27_ReturnedCount ==
    (frame_count > 0 /\ detections # <<>> /\ track_buffer >= 0) =>
        /\ \A k \in DOMAIN LastHigh :
              Cardinality({n \in DOMAIN results : results[n][5] = TrackOfHigh(k)}) = 1
        /\ \A k, l \in DOMAIN LastHigh : k # l => TrackOfHigh(k) # TrackOfHigh(l)
        /\ Len(results) = Len(LastHigh) + Len(pass2.matched)
        /\ Len(results) <= Len(detections)
        /\ \A m, n \in DOMAIN results : m # n => results[m][5] # results[n][5]

\* a call returned an entry for a created track, one for a track paired in
\* pass 1 or one for a track paired in pass 2, two entries in all
C27_TwoEntriesSeen ==
    /\ Returned
    /\ Len(results) = 2
    /\ Len(pass2.matched) = 1
    /\ Len(LastHigh) = 1

----------------------------------------------------------------------------
(* C31 *)

\* C31: after every update call (track_buffer >= 0), every track of the
\* dict has 0 <= age <= track_buffer, hits >= 1, 1 <= start_frame <=
\* frame_count, hits + age <= frame_count - start_frame + 1 and id <
\* next_id; frame_count is the number of update calls made.
C31_StoredTracks ==
    (update_calls > 0 /\ track_buffer >= 0) =>
        /\ frame_count = update_calls
        /\ \A t \in Range(tracks) :
              /\ 0 <= t.age /\ t.age <= track_buffer
              /\ t.hits >= 1
              /\ 1 <= t.start_frame /\ t.start_frame <= frame_count
              /\ t.hits + t.age <= frame_count - t.start_frame + 1
              /\ t.id < next_id

\* after three calls the dict holds a track that was paired once and has
\* then missed track_buffer = 1 frame
C31_Witness ==
    /\ update_calls = 3
    /\ Returned
    /\ track_buffer = 1
    /\ \E t \in Range(tracks) :
          /\ t.age = track_buffer
          /\ t.hits = 2
          /\ t.start_frame = 1

\* update raised ValueError while the dict held a track
C31_RaisedWithTracks ==
    /\ raised
    /\ tracks # <<>>
    /\ update_calls >= 2

----------------------------------------------------------------------------
(* C32 *)

\* C32: every track with at least one observation that passes the area
\* filter has a per_bird record with a finite weight index > 0, whatever
\* the confidences in [0, 1] of these observations, all of them 0.0
\* included; the sum the blending weights are divided by is not 0.
C32_NoSilentDrop ==
    Estimated =>
        \A e \in Range(track_histories) :
            valid_indices(e.boxes) # <<>> =>
                /\ ~RatEq(RatSum(RawWeights(SurvivingConfidences(e))), <<0, 1>>)
                /\ e.track_id \in PerBirdIds
                /\ ~IsNaN(RecordOf(e.track_id).weight_index)
                /\ RatGt(RecordOf(e.track_id).weight_index, <<0, 1>>)

\* what the code does: a track with surviving observations has a record,
\* with a finite weight index > 0, exactly if one of them has a positive
\* confidence; if all have confidence 0.0 the weights are 0 / 0, the weight
\* index is not a number, the test of line 53 fails and the track has no
\* record
DroppedAtZeroConfidence ==
    Estimated =>
        \A e \in Range(track_histories) :
            valid_indices(e.boxes) # <<>> =>
                IF \E j \in DOMAIN SurvivingConfidences(e) :
                      SurvivingConfidences(e)[j] > 0
                THEN /\ e.track_id \in PerBirdIds
                     /\ ~IsNaN(RecordOf(e.track_id).weight_index)
                     /\ RatGt(RecordOf(e.track_id).weight_index, <<0, 1>>)
                ELSE /\ e.track_id \notin PerBirdIds
                     /\ IsNaN(calculate_weight_index(e.boxes, e.confidences).weight_index)

----------------------------------------------------------------------------
(* Vocabulary of the process_video properties *)

\* the CountRecord of the last sampled frame
LastRecord == counts[Len(counts)]

\* the frames cap.read() has delivered: frame_idx counts the frames whose
\* turn of the loop is over; the frame an exception interrupted is one more
FramesRead ==
    IF pv_status \in {"running", "returned"} THEN 0..(frame_idx - 1)
    ELSE 0..frame_idx

\* the last observation of the history e is (frame, box)
LastObservation(e, frame, box) ==
    /\ Len(e.frames) > 0
    /\ e.frames[Len(e.frames)] = frame
    /\ e.boxes[Len(e.boxes)] = box

Abs(x) == IF x >= 0 THEN x ELSE -x

\* np.allclose(det_box, track_box, atol=1.0) for integer coordinates: every
\* coordinate of det_box is within 1 pixel of that of track_box
WithinTolerance(det_box, track_box) ==
    \A c \in 1..4 : Abs(det_box[c] - track_box[c]) <= 1

RECURSIVE reconcile(_, _, _)
\* lines 114-120 of process_video, from the k-th detection on: the
\* confidence of the first detection within tolerance of box, and whether
\* there is one (conf stays 0.0 if there is none)
reconcile(dets, box, k) ==
    IF k > Len(dets) THEN [found |-> FALSE, conf |-> 0]
    ELSE IF WithinTolerance(SubSeq(dets[k], 1, 4), box)
    THEN [found |-> TRUE, conf |-> dets[k][5]]
    ELSE reconcile(dets, box, k + 1)

----------------------------------------------------------------------------
(* C13 *)

\* C13: after a sampled frame, every (box, id) update returned for it is
\* the last observation of the history of id, with the index of the frame;
\* every history has boxes, confidences and frames of one length and
\* strictly increasing frame indices, and no two histories share an id.
C13_HistoryAppend ==
    (pv_status # "off" /\ counts # <<>>) =>
        /\ \A k \in DOMAIN results :
              \E e \in Range(all_tracks) :
                 /\ e.track_id = results[k][5]
                 /\ LastObservation(e, LastRecord.frame, SubSeq(results[k], 1, 4))
        /\ \A e \in Range(all_tracks) :
              /\ Len(e.boxes) = Len(e.frames)
              /\ Len(e.confidences) = Len(e.frames)
              /\ \A i, j \in DOMAIN e.frames : i < j => e.frames[i] < e.frames[j]
        /\ \A i, j \in DOMAIN all_tracks :
              i # j => all_tracks[i].track_id # all_tracks[j].track_id

----------------------------------------------------------------------------
(* C14 *)

\* C14: process_video does not fail, and counts holds exactly one record
\* for every frame read whose index is divisible by fps_sample and none for
\* another frame, in strictly increasing order of the frame index; update
\* has been called once per record, and the count of the last record is the
\* number of entries the last update returned; processed_frames is the
\* number of records.
C14_CountRecords ==
    pv_status # "off" =>
        /\ pv_status \in {"running", "returned"}
        /\ {counts[k].frame : k \in DOMAIN counts} =
              {f \in FramesRead : f % fps_sample = 0}
        /\ \A i, j \in DOMAIN counts : i < j => counts[i].frame < counts[j].frame
        /\ frame_count = Len(counts)
        /\ counts # <<>> => LastRecord.count = Len(results)
        /\ processed_frames = Len(counts)

\* what holds of the records also when process_video fails
CountRecordsAsComputed ==
    pv_status # "off" =>
        /\ {counts[k].frame : k \in DOMAIN counts} =
              {f \in FramesRead : f % fps_sample = 0}
        /\ \A i, j \in DOMAIN counts : i < j => counts[i].frame < counts[j].frame
        /\ frame_count = Len(counts)
        /\ counts # <<>> => LastRecord.count = Len(results)
        /\ pv_status \in {"running", "returned"} => processed_frames = Len(counts)

----------------------------------------------------------------------------
(* C19 *)

\* C19: after a sampled frame, for every (box, id) update returned for it
\* the confidence stored last in the history of id is that of the first
\* detection of the frame whose box is within tolerance of box, and 0 when
\* no detection of the frame is.
C19_ConfidenceReconciliation ==
    (pv_status # "off" /\ counts # <<>>) =>
        \A k \in DOMAIN results :
            LET box == SubSeq(results[k], 1, 4)
                near == {j \in DOMAIN detections :
                            WithinTolerance(SubSeq(detections[j], 1, 4), box)}
                first == CHOOSE j \in near : \A i \in near : j <= i
            IN  \E e \in Range(all_tracks) :
                   /\ e.track_id = results[k][5]
                   /\ LastObservation(e, LastRecord.frame, box)
                   /\ Len(e.confidences) = Len(e.frames)
                   /\ e.confidences[Len(e.confidences)] =
                         IF near = {} THEN 0 ELSE detections[first][5]

----------------------------------------------------------------------------
(* C28 *)

\* C28: process_video builds the tracker with track_thresh = conf_thresh;
\* the detector returning only detections of confidence >= conf_thresh, no
\* detection of a sampled frame is of low confidence for the tracker, pass
\* 2 does not run, and the count of the frame's record is the number of
\* detections of the frame.
C28_NoLowDetections ==
    pv_status # "off" =>
        /\ track_thresh = conf_thresh
        /\ frame_count > 0 => (LastLow = <<>> /\ ~ran2 /\ pass2 = NoPass)
        /\ counts # <<>> => LastRecord.count = Len(detections)

\* a frame was sampled with two detections, one of a confidence between
\* conf_thresh and the default track_thresh of 0.5, and its record counts 2
C28_Witness ==
    /\ pv_status # "off"
    /\ counts # <<>>
    /\ LastRecord.count = 2
    /\ Len(detections) = 2
    /\ \E k \in DOMAIN detections : detections[k][5] < 50
    /\ conf_thresh = 25

\* a frame was sampled with a detection of confidence conf_thresh itself
C28_AtThreshold ==
    /\ pv_status # "off"
    /\ counts # <<>>
    /\ LastRecord.count = 1
    /\ detections[1][5] = conf_thresh

\* in a tracker that already holds tracks: a call whose detections are all
\* of high confidence runs no pass 2 and, if it returns, returns one entry
\* per detection
AllHighAllCounted ==
    (frame_count > 0 /\ detections # <<>> /\ LastLow = <<>>) =>
        /\ ~ran2
        /\ ~raised => Len(results) = Len(detections)

----------------------------------------------------------------------------
(* C29 *)

\* C29: after a sampled frame, for every (box, id) update returned for it
\* the confidence stored last in the history of id is the confidence the
\* tracker holds for the track id, that of the detection it paired with the
\* track or created it from.
C29_ConfidenceAsTracked ==
    (pv_status # "off" /\ counts # <<>>) =>
        \A k \in DOMAIN results :
            \E e \in Range(all_tracks) :
               /\ e.track_id = results[k][5]
               /\ Len(e.confidences) > 0
               /\ Len(e.frames) = Len(e.confidences)
               /\ e.frames[Len(e.frames)] = LastRecord.frame
               /\ e.confidences[Len(e.confidences)] =
                     TrackOf(tracks, results[k][5]).confidence

\* update returned a track for which the loop of lines 114-120, were it
\* reached, would find another confidence than the tracker holds: the first
\* detection within tolerance of its box is not the detection it was
\* paired with
C29_FirstWithinToleranceDiffers ==
    /\ Returned
    /\ \E k \in DOMAIN results :
          LET r == reconcile(detections, SubSeq(results[k], 1, 4), 1)
          IN  r.found /\ r.conf # TrackOf(tracks, results[k][5]).confidence

----------------------------------------------------------------------------
(* C30 *)

\* C30: every box update returns for a frame is the box of one of the
\* frame's detections, so the loop of lines 114-120 finds a detection
\* within tolerance of it and does not fall back to confidence 0.0; no
\* history entry holds the confidence 0.0.
C30_FallbackUnreachable ==
    frame_count > 0 =>
        /\ \A k \in DOMAIN results :
              /\ \E j \in DOMAIN detections :
                    SubSeq(detections[j], 1, 4) = SubSeq(results[k], 1, 4)
              /\ reconcile(detections, SubSeq(results[k], 1, 4), 1).found
        /\ \A e \in Range(all_tracks) :
              \A n \in DOMAIN e.confidences : e.confidences[n] > 0

\* process_video sampled a frame for which update returned two boxes
C30_Witness ==
    /\ pv_status # "off"
    /\ counts # <<>>
    /\ Len(results) = 2
    /\ results[1] # results[2]
    /\ \A k \in DOMAIN results :
          reconcile(detections, SubSeq(results[k], 1, 4), 1).found

\* a tracker that holds tracks returned a track paired in pass 2 and a
\* track paired in pass 1, each with the box of its detection
C30_PairedBoxesSeen ==
    /\ Returned
    /\ MatchedIds(pass1) # {}
    /\ MatchedIds(pass2) # {}
    /\ \A k \in DOMAIN results :
          reconcile(detections, SubSeq(results[k], 1, 4), 1).found

----------------------------------------------------------------------------
(* Extent of the AttributeError of C13 *)

\* process_video fails in the first sampled frame for which update returns
\* a track, and only there; it never stores an observation
FailsOnFirstTrack ==
    pv_status # "off" =>
        /\ results # <<>> <=> pv_status = "AttributeError"
        /\ all_tracks = <<>>
        /\ pv_status = "returned" => \A k \in DOMAIN counts : counts[k].count = 0

----------------------------------------------------------------------------
(* Extent of the ValueError of C5 *)

\* _match raises only under match_thresh <= 0: with a positive match_thresh
\* a maximum of 0 breaks the loop at line 166.
RaisesOnlyAtZeroThresh == raised => ~RatGt(match_thresh, <<0, 1>>)

\* C2, C3, C6, C7 and C9 are violated only by calls in which _match raises:
\* under a positive match_thresh all five hold.
HoldAtPositiveThresh ==
    RatGt(match_thresh, <<0, 1>>) =>
        /\ C2_EvictionBoundary
        /\ C3_AgeTransition
        /\ C6_TrackCreation
        /\ C7_GreedyMatching
        /\ C9_IdentityStability

\* so is C27: in every call that returns, the returned entries are as C27
\* counts them
ReturnedCountWhereReturned ==
    /\ RatGt(match_thresh, <<0, 1>>) => C27_ReturnedCount
    /\ ~raised => C27_ReturnedCount

====
